---- MODULE Spec2Model ----
(***************************************************************************)
(* A model of the SSTable stream writer (sstables/sstable_writer.go):      *)
(* SSTableStreamWriter.Open, WriteNext and Close acting on the data,       *)
(* index, meta and bloom files of one table directory.  Every I/O call of  *)
(* the writer may fail; the failures are inputs of the actions.            *)
(***************************************************************************)
EXTENDS Integers, Sequences, FiniteSets, TLC

\* ------------------------------------------------------------------ bounds
\* Number of calls (Open, WriteNext, Close) made on the writer.
MaxCalls == 4

\* ------------------------------------------------------- inputs and values
\* The []byte keys handed to WriteNext: the empty key, keys of different
\* lengths, and a longer key that sorts before a shorter one.
Keys == {<<>>, <<1, 2>>, <<2>>}

\* A Go slice is nil or holds bytes; a nil slice and an empty one differ.
NilSlice == [nil |-> TRUE, bytes |-> <<>>]

Slice(b) == [nil |-> FALSE, bytes |-> b]

\* The values handed to WriteNext: nil, the empty slice, and some payloads.
Values == {NilSlice, Slice(<<>>), Slice(<<1>>)}

\* ------------------------------------------------------------- comparator
\* bytes.Compare: lexicographic order, -1 / 0 / 1.
RECURSIVE Compare(_, _)
Compare(a, b) ==
    IF a = <<>> /\ b = <<>> THEN 0
    ELSE IF a = <<>> THEN -1
    ELSE IF b = <<>> THEN 1
    ELSE IF Head(a) < Head(b) THEN -1
    ELSE IF Head(a) > Head(b) THEN 1
    ELSE Compare(Tail(a), Tail(b))

\* --------------------------------------------------------------- CRC-64
\* A 64-bit word is the set of its one bits (bit 0 the least significant).
Bits64 == 0..63

ByteBits(b) == {i \in 0..7 : (b \div (2 ^ i)) % 2 = 1}

Xor(x, y) == (x \ y) \cup (y \ x)

ShiftRight1(x) == {i - 1 : i \in x \ {0}}

\* crc64.ISO = 0xD800000000000000 (reversed polynomial).
PolyISO == {63, 62, 60, 59}

RECURSIVE CrcBitSteps(_, _)
CrcBitSteps(crc, n) ==
    IF n = 0 THEN crc
    ELSE CrcBitSteps(IF 0 \in crc THEN Xor(ShiftRight1(crc), PolyISO)
                                  ELSE ShiftRight1(crc), n - 1)

RECURSIVE CrcUpdate(_, _)
CrcUpdate(crc, p) ==
    IF p = <<>> THEN crc
    ELSE CrcUpdate(CrcBitSteps(Xor(crc, ByteBits(Head(p))), 8), Tail(p))

\* crc64.New(MakeTable(ISO)); Write(p); Sum64(): the register starts at 0 and
\* is complemented before and after the update.
Crc64(p) == Bits64 \ CrcUpdate(Bits64 \ {}, p)

\* The checksums of the values written, computed once.
Checksums == [p \in {v.bytes : v \in Values} |-> Crc64(p)]

\* ------------------------------------------------- RecordIO (data, index)
\* File header: four magic bytes, a version byte and a compression byte.
FileHeaderSize == 6

\* Record framing: magic byte, two length varints, a four byte checksum.
RecordOverhead == 7

\* The data file is the sequence of its records, each with its starting
\* offset; Size() is the file's byte count.  A writer that was created but
\* not opened has written nothing.
RecSize(status, file) ==
    IF status = "new" THEN 0
    ELSE IF file = <<>> THEN FileHeaderSize
    ELSE file[Len(file)].offset + RecordOverhead + Len(file[Len(file)].payload)

\* Write(payload) appends one record at the current Size() and returns that
\* offset; it fails, appending nothing, unless the writer is open.
RecWriteOk(status, fail) == status = "open" /\ ~fail

RecWrite(status, file, payload) ==
    Append(file, [offset |-> RecSize(status, file), payload |-> payload])

\* Seek(offset) truncates the file back to offset.
RecSeekOk(status, fail) == status = "open" /\ ~fail

RecSeek(file, offset) == SelectSeq(file, LAMBDA r : r.offset < offset)

\* Close() closes the handle; closing a writer that is not open is an error.
RecCloseOk(status, fail) == status = "open" /\ ~fail

\* Encoded length of a 64-bit varint field given as a bit set (0 is omitted).
VarintLen(bits) ==
    IF bits = {} THEN 0
    ELSE ((CHOOSE h \in bits : \A i \in bits : i <= h) \div 7) + 2

\* Bytes of one index record: framing plus the encoded IndexEntry.
IndexRecordSize(e) ==
    RecordOverhead + (IF e.Key = <<>> THEN 0 ELSE 2 + Len(e.Key))
                   + 2 + VarintLen(e.Checksum)

RECURSIVE IndexBytesOf(_)
IndexBytesOf(file) ==
    IF file = <<>> THEN FileHeaderSize
    ELSE IndexBytesOf(SubSeq(file, 1, Len(file) - 1))
         + IndexRecordSize(file[Len(file)])

IndexSize(status, file) == IF status = "new" THEN 0 ELSE IndexBytesOf(file)

\* ------------------------------------------------------------- metadata
\* sstables.Version, the format version stamped into the metadata.
Version == 1

NilMetaData ==
    [nil |-> TRUE, Version |-> 0, NumRecords |-> 0, NullValues |-> 0,
     MinKey |-> NilSlice, MaxKey |-> NilSlice,
     DataBytes |-> 0, IndexBytes |-> 0, TotalBytes |-> 0]

\* &sProto.MetaData{Version: Version}
NewMetaData == [NilMetaData EXCEPT !.nil = FALSE, !.Version = Version]

\* proto.Marshal: the fields in order, a field of default value (zero, no
\* bytes) left out.
NumField(name, n) ==
    IF n = 0 THEN <<>> ELSE <<[field |-> name, num |-> n, bytes |-> <<>>]>>

BytesField(name, s) ==
    IF s.bytes = <<>> THEN <<>>
    ELSE <<[field |-> name, num |-> 0, bytes |-> s.bytes]>>

Marshal(md) ==
    NumField("version", md.Version) \o NumField("num_records", md.NumRecords)
    \o NumField("null_values", md.NullValues)
    \o BytesField("min_key", md.MinKey) \o BytesField("max_key", md.MaxKey)
    \o NumField("data_bytes", md.DataBytes)
    \o NumField("index_bytes", md.IndexBytes)
    \o NumField("total_bytes", md.TotalBytes)

\* File.Write on a handle opened without O_TRUNC and positioned at 0: the
\* blob replaces the start of the file, what lies beyond it stays.
FileWriteAt0(file, blob) == blob \o SubSeq(file, Len(blob) + 1, Len(file))

\* The meta file an earlier table may have left in the directory.
StaleMeta ==
    Marshal([NewMetaData EXCEPT !.NumRecords = 2, !.NullValues = 1,
                                !.MinKey = Slice(<<1>>), !.MaxKey = Slice(<<2>>),
                                !.DataBytes = 21, !.IndexBytes = 40,
                                !.TotalBytes = 61])

\* ----------------------------------------------------------------- FNV-1
\* 64-bit words as bit sets again: shift left, and addition modulo 2^64 by
\* ripple carry.
ShiftLeft(x, n) == {i + n : i \in x} \cap Bits64

RECURSIVE AddFrom(_, _, _, _)
AddFrom(x, y, i, carry) ==
    IF i > 63 THEN {}
    ELSE LET ones == (IF i \in x THEN 1 ELSE 0) + (IF i \in y THEN 1 ELSE 0)
                     + carry
         IN  (IF ones % 2 = 1 THEN {i} ELSE {})
             \cup AddFrom(x, y, i + 1, ones \div 2)

Add64(x, y) == AddFrom(x, y, 0, 0)

\* The FNV offset basis 0xcbf29ce484222325.
FnvOffset64 ==
    {0, 2, 5, 8, 9, 13, 17, 21, 26, 31, 34, 37, 38, 39, 42, 43, 44, 47,
     49, 52, 53, 54, 55, 56, 57, 59, 62, 63}

\* Multiplication by the FNV prime 0x100000001b3 = 2^40 + 2^8 + 0xb3.
FnvMulPrime(h) ==
    Add64(ShiftLeft(h, 40),
    Add64(ShiftLeft(h, 8),
    Add64(ShiftLeft(h, 7),
    Add64(ShiftLeft(h, 5),
    Add64(ShiftLeft(h, 4),
    Add64(ShiftLeft(h, 1), h))))))

\* fnv.New64(): multiply, then xor the byte in (FNV-1; New64a would xor
\* first).
RECURSIVE Fnv64From(_, _)
Fnv64From(h, p) ==
    IF p = <<>> THEN h
    ELSE Fnv64From(Xor(FnvMulPrime(h), ByteBits(Head(p))), Tail(p))

Fnv64(p) == Fnv64From(FnvOffset64, p)

\* The hashes of the keys written, computed once.
KeyHashes == [k \in Keys |-> Fnv64(k)]

\* ---------------------------------------------------------- bloom filter
\* The filter as the set of the 64-bit hashes added to it: a filter that
\* answers true for exactly those (it has no false positives, which the
\* real one may have).
NilBloom == [nil |-> TRUE, hashes |-> {}]

EmptyBloom == [nil |-> FALSE, hashes |-> {}]

\* The Add that hashes nothing: fnvHash.Write(key) left out.
BloomAdd_NoWrite(bf, key) == [bf EXCEPT !.hashes = @ \cup {KeyHashes[<<>>]}]

\* fnvHash := fnv.New64(); fnvHash.Write(key); bloomFilter.Add(fnvHash)
BloomAdd(bf, key) == [bf EXCEPT !.hashes = @ \cup {KeyHashes[key]}]

\* Contains of the same library, asked with the hash the writer uses.
BloomContains(bf, key) == ~bf.nil /\ KeyHashes[key] \in bf.hashes

\* opts.enableBloomFilter: the default of NewSSTableStreamWriter, which no
\* option of the writer turns off.
enableBloomFilter == TRUE

\* ------------------------------------------------------------ constructors
\* Bound: the longest option list a constructor is called with.
MaxOptions == 3

\* The defaults of NewSSTableStreamWriter.  Probabilities are counted in
\* thousandths, so 0.01 is 10.
DefaultBloomFpProbability == 10

DefaultBloomExpectedNumberOfElements == 1000

DefaultWriteBufferSizeBytes == 4194304

\* The buffer size NewSSTableSimpleWriter passes on.
SimpleWriteBufferSizeBytes == 4096

DefaultOptions ==
    [basePath |-> "",
     enableBloomFilter |-> TRUE,
     indexCompressionType |-> "None",
     dataCompressionType |-> "Snappy",
     bloomFpProbability |-> DefaultBloomFpProbability,
     bloomExpectedNumberOfElements |-> DefaultBloomExpectedNumberOfElements,
     writeBufferSizeBytes |-> DefaultWriteBufferSizeBytes,
     keyComparator |-> "nil"]

\* A WriterOption: the option function and its argument (a string or a
\* number).
Option(name, str, num) == [opt |-> name, str |-> str, num |-> num]

WriteBasePath(p) == Option("WriteBasePath", p, 0)

WithKeyComparator(cmp) == Option("WithKeyComparator", cmp, 0)

DataCompressionType(t) == Option("DataCompressionType", t, 0)

EnableBloomFilter == Option("EnableBloomFilter", "", 0)

BloomExpectedNumberOfElements(n) == Option("BloomExpectedNumberOfElements", "", n)

BloomFalsePositiveProbability(fpProbability) ==
    Option("BloomFalsePositiveProbability", "", fpProbability)

WriteBufferSizeBytes(bufSizeBytes) == Option("WriteBufferSizeBytes", "", bufSizeBytes)

\* The options the constructors are called with: good and missing base
\* paths and comparators, bloom sizings of zero and below, buffer sizes.
WriterOptions ==
    {WriteBasePath("/table"), WriteBasePath(""),
     WithKeyComparator("BytesComparator"), WithKeyComparator("nil"),
     DataCompressionType("None"), EnableBloomFilter,
     BloomExpectedNumberOfElements(0),
     BloomFalsePositiveProbability(0), BloomFalsePositiveProbability(0 - 10),
     WriteBufferSizeBytes(8192), WriteBufferSizeBytes(65536)}

OptionLists == UNION {[1..n -> WriterOptions] : n \in 0..MaxOptions}

\* writeOption(opts): what each option function assigns.
ApplyOption(args, o) ==
    CASE o.opt = "WriteBasePath" -> [args EXCEPT !.basePath = o.str]
      [] o.opt = "WithKeyComparator" -> [args EXCEPT !.keyComparator = o.str]
      [] o.opt = "DataCompressionType" -> [args EXCEPT !.dataCompressionType = o.str]
      [] o.opt = "EnableBloomFilter" -> [args EXCEPT !.enableBloomFilter = TRUE]
      [] o.opt = "BloomExpectedNumberOfElements"
           -> [args EXCEPT !.bloomExpectedNumberOfElements = o.num]
      [] o.opt = "BloomFalsePositiveProbability"
           -> [args EXCEPT !.bloomFpProbability = o.num]
      [] o.opt = "WriteBufferSizeBytes" -> [args EXCEPT !.writeBufferSizeBytes = o.num]

\* for _, writeOption := range writerOptions { writeOption(opts) }
RECURSIVE ApplyOptions(_, _)
ApplyOptions(args, writerOptions) ==
    IF writerOptions = <<>> THEN args
    ELSE ApplyOptions(ApplyOption(args, Head(writerOptions)), Tail(writerOptions))

\* What a constructor returns: a writer with its options, or nil and an
\* error.
Built(o) == [nil |-> FALSE, opts |-> o, err |-> ""]

Refused(err) == [nil |-> TRUE, opts |-> DefaultOptions, err |-> err]

NewSSTableStreamWriter(writerOptions) ==
    LET o == ApplyOptions(DefaultOptions, writerOptions)
    IN  IF o.basePath = "" THEN Refused("basePath was not supplied")
        ELSE IF o.keyComparator = "nil" THEN Refused("no key comparator supplied")
        ELSE IF o.bloomExpectedNumberOfElements <= 0
             THEN Refused("unexpected number of bloom filter elements")
        ELSE Built(o)

\* The simple writer's own option put in front of the caller's.
SimpleOptions_Prepend(writerOptions) ==
    <<WriteBufferSizeBytes(SimpleWriteBufferSizeBytes)>> \o writerOptions

\* append(writerOptions, WriteBufferSizeBytes(4096))
SimpleOptions(writerOptions) ==
    Append(writerOptions, WriteBufferSizeBytes(SimpleWriteBufferSizeBytes))

NewSSTableSimpleWriter(writerOptions) ==
    NewSSTableStreamWriter(SimpleOptions(writerOptions))

\* The options of the writer whose calls are followed: the least a
\* constructor accepts, the rest the defaults.
OpenedOptions ==
    ApplyOptions(DefaultOptions,
                 <<WriteBasePath("/table"), WithKeyComparator("BytesComparator")>>)

\* No constructor call under way.
NoNewCall == [fn |-> "none", writerOptions |-> <<>>, returned |-> TRUE,
              nil |-> FALSE, err |-> ""]

\* No WriteSkipListMap call under way.
NoSimpleCall == [pc |-> "idle"]

\* ------------------------------------------------------------------ state
VARIABLES
    indexWriter,    \* writer.indexWriter: "nil", "new", "open" or "closed"
    dataWriter,     \* writer.dataWriter:  "nil", "new", "open" or "closed"
    metaDataFile,   \* writer.metaDataFile: "nil", "open" or "closed"
    bloomFilter,    \* writer.bloomFilter
    metaData,       \* writer.metaData
    lastKey,        \* writer.lastKey
    indexFile,      \* the index file: its IndexEntry records in order
    dataFile,       \* the data file: its records in order
    metaFile,       \* the meta file's content
    bloomFile,      \* the bloom file, once written
    dir,            \* the directory at basePath: whether it exists, its files
    opts,           \* writer.opts
    newCall,        \* a constructor call: its arguments and what it returned
    simple,         \* a WriteSkipListMap call: where it is and what it did
    lastCall,       \* the latest call: its arguments, I/O steps and result
    numCalls,       \* calls made so far
    wstate,         \* "Fresh", "OpenFailed", "Open", "Closed" or "Panicked"
    okWrites,       \* WriteNext calls that returned nil
    seekFailed,     \* whether a rollback Seek has failed
    reopened        \* whether Open was called again after an Open succeeded

vars == <<indexWriter, dataWriter, metaDataFile, bloomFilter, metaData, lastKey,
          indexFile, dataFile, metaFile, bloomFile, dir, opts, newCall, simple,
          lastCall, numCalls, wstate, okWrites, seekFailed, reopened>>

\* The writer and its files as one record, the argument of the operations.
Writer ==
    [indexWriter |-> indexWriter, dataWriter |-> dataWriter,
     metaDataFile |-> metaDataFile, bloomFilter |-> bloomFilter,
     metaData |-> metaData, lastKey |-> lastKey, indexFile |-> indexFile,
     dataFile |-> dataFile, metaFile |-> metaFile, bloomFile |-> bloomFile,
     dir |-> dir]

\* What a call hands back: the writer after it, the error it returns (the
\* joined causes in order, <<>> for nil), the I/O steps it attempted, and
\* whether it panicked.
Result(w, err, steps) == [w |-> w, err |-> err, steps |-> steps, panic |-> FALSE]

Panic(w, steps) == [w |-> w, err |-> <<"panic">>, steps |-> steps, panic |-> TRUE]

Step(name, ok) == [step |-> name, ok |-> ok]

\* errors.Join over the steps: the names of those that failed, in order.
JoinErrors(steps) ==
    LET failed == SelectSeq(steps, LAMBDA s : ~s.ok)
    IN [i \in 1..Len(failed) |-> failed[i].step]

\* The directory the base path names when the writer is built: absent,
\* there and empty, or holding the files of an earlier table.
AbsentDir == [exists |-> FALSE, files |-> {}]

EmptyDir == [exists |-> TRUE, files |-> {}]

StaleDir == [exists |-> TRUE, files |-> {"data", "index", "meta", "bloom"}]

\* The writer just built (its fields nil) over one of these directories.
NewWriter ==
    /\ indexWriter = "nil" /\ dataWriter = "nil" /\ metaDataFile = "nil"
    /\ bloomFilter = NilBloom /\ metaData = NilMetaData /\ lastKey = NilSlice
    /\ indexFile = <<>> /\ dataFile = <<>>
    /\ dir \in {AbsentDir, EmptyDir, StaleDir}
    /\ metaFile = IF "meta" \in dir.files THEN StaleMeta ELSE <<>>
    /\ bloomFile = NilBloom

\* No call made yet.
NoCalls ==
    /\ lastCall = [op |-> "New", key |-> <<>>, value |-> NilSlice,
                   err |-> <<>>, steps |-> <<>>]
    /\ numCalls = 0 /\ wstate = "Fresh" /\ okWrites = 0
    /\ seekFailed = FALSE /\ reopened = FALSE

Init ==
    /\ NewWriter
    /\ opts = OpenedOptions /\ newCall = NoNewCall /\ simple = NoSimpleCall
    /\ NoCalls

\* -------------------------------------------------------------------- Open
\* The places where Open can fail, in the order it reaches them.
OpenFailures ==
    {"none", "indexNew", "indexOpen", "dataNew", "dataOpen", "metaOpen", "bloomNew"}

\* Open with an os.MkdirAll(basePath) in front.
DirAtOpen_MkdirAll(d) == [d EXCEPT !.exists = TRUE]

\* The directory as Open finds it: Open starts at the index writer and
\* makes no directory.
DirAtOpen(d) == d

\* Creating a file (O_CREATE) succeeds in a directory that exists, unless
\* the I/O fails for another reason.
CreateOk(d, fail) == d.exists /\ ~fail

\* SSTableStreamWriter.Open: each stage assigns its field before the next
\* one runs, and an error returns at once, keeping what was assigned.
\* A file cannot be created in a directory that is absent.
OpenResult(w, failAt) ==
    LET w0 == [w EXCEPT !.dir = DirAtOpen(@)]
        w1 == [w0 EXCEPT !.indexWriter = "new"]
        w2 == [w1 EXCEPT !.indexWriter = "open", !.indexFile = <<>>,
                         !.dir.files = @ \cup {"index"}]
        w3 == [w2 EXCEPT !.dataWriter = "new"]
        w4 == [w3 EXCEPT !.dataWriter = "open", !.dataFile = <<>>,
                         !.dir.files = @ \cup {"data"}]
        w5 == [w4 EXCEPT !.metaDataFile = "open", !.metaData = NewMetaData,
                         !.dir.files = @ \cup {"meta"}]
        w6 == [w5 EXCEPT !.bloomFilter = EmptyBloom]
        s1 == <<Step("indexNew", failAt # "indexNew")>>
        s2 == Append(s1, Step("indexOpen", CreateOk(w0.dir, failAt = "indexOpen")))
        s3 == Append(s2, Step("dataNew", failAt # "dataNew"))
        s4 == Append(s3, Step("dataOpen", CreateOk(w0.dir, failAt = "dataOpen")))
        s5 == Append(s4, Step("metaOpen", CreateOk(w0.dir, failAt = "metaOpen")))
        s6 == Append(s5, Step("bloomNew", failAt # "bloomNew"))
        Failed(s) == ~s[Len(s)].ok
    IN  IF Failed(s1) THEN Result(w0, JoinErrors(s1), s1)
        ELSE IF Failed(s2) THEN Result(w1, JoinErrors(s2), s2)
        ELSE IF Failed(s3) THEN Result(w2, JoinErrors(s3), s3)
        ELSE IF Failed(s4) THEN Result(w3, JoinErrors(s4), s4)
        ELSE IF Failed(s5) THEN Result(w4, JoinErrors(s5), s5)
        ELSE IF ~enableBloomFilter THEN Result(w5, <<>>, s5)
        ELSE IF Failed(s6) THEN Result(w5, JoinErrors(s6), s6)
        ELSE Result(w6, <<>>, s6)

\* --------------------------------------------------------------- WriteNext
\* The order check with the equal case dropped.
OrderCheck_AllowEqual(last, key) ==
    IF Compare(last, key) > 0 THEN "OutOfOrderKey" ELSE "ok"

\* The order check with the comparator's arguments exchanged.
OrderCheck_Swapped(last, key) ==
    LET cmpResult == Compare(key, last)
    IN  IF cmpResult = 0 THEN "DuplicateKey"
        ELSE IF cmpResult > 0 THEN "OutOfOrderKey"
        ELSE "ok"

\* The key order check against lastKey (Compare(lastKey, key)).
OrderCheck(last, key) ==
    LET cmpResult == Compare(last, key)
    IN  IF cmpResult = 0 THEN "DuplicateKey"
        ELSE IF cmpResult > 0 THEN "OutOfOrderKey"
        ELSE "ok"

\* The index entry with the checksum taken over the key.
IndexEntryOf_KeyChecksum(key, recordOffset, value) ==
    [Key |-> key, ValueOffset |-> recordOffset, Checksum |-> Crc64(key)]

\* The index entry of one write.
IndexEntryOf(key, recordOffset, value) ==
    [Key |-> key, ValueOffset |-> recordOffset, Checksum |-> Checksums[value.bytes]]

\* The counters with a nil value counted as a null value only.
CountRecord_NilNotCounted(md, value) ==
    IF value.nil THEN [md EXCEPT !.NullValues = @ + 1]
    ELSE [md EXCEPT !.NumRecords = @ + 1]

\* The counters after a write that reached both files.
CountRecord(md, value) ==
    [md EXCEPT !.NumRecords = @ + 1,
               !.NullValues = IF value.nil THEN @ + 1 ELSE @]

\* The failed index append without the rewind.
Rollback_NoSeek(status, file, preWriteOffset, seekFail) == file

\* The rewind of the data writer after a failed index append.
Rollback(status, file, preWriteOffset, seekFail) ==
    IF RecSeekOk(status, seekFail) THEN RecSeek(file, preWriteOffset) ELSE file

\* After Close, metaData.MaxKey is the lastKey slice itself: a key of the
\* same length is copied into that buffer, a key of another length gets a
\* new one.
SharesLastKeyBuffer(w, key) ==
    /\ ~w.lastKey.nil /\ ~w.metaData.MaxKey.nil
    /\ w.metaData.MaxKey = w.lastKey
    /\ Len(key) = Len(w.lastKey.bytes)

\* The part of WriteNext after the key checks: lastKey and the bloom filter
\* take the key, then the data record and the index entry are appended.
WriteRecord(w, key, value, dataFail, indexFail, seekFail) ==
    LET wk == [w EXCEPT !.lastKey = Slice(key),
                        !.metaData.MaxKey = IF SharesLastKeyBuffer(w, key)
                                            THEN Slice(key) ELSE @]
        wb == IF enableBloomFilter
              THEN [wk EXCEPT !.bloomFilter = BloomAdd(@, key)] ELSE wk
        preWriteOffset == RecSize(wb.dataWriter, wb.dataFile)
        dataOk == RecWriteOk(wb.dataWriter, dataFail)
        wd == [wb EXCEPT !.dataFile = RecWrite(wb.dataWriter, @, value.bytes)]
        recordOffset == preWriteOffset
        indexOk == RecWriteOk(wd.indexWriter, indexFail)
        seekOk == RecSeekOk(wd.dataWriter, seekFail)
        wr == [wd EXCEPT !.dataFile =
                   Rollback(wd.dataWriter, @, preWriteOffset, seekFail)]
        wi == [wd EXCEPT !.indexFile =
                             Append(@, IndexEntryOf(key, recordOffset, value)),
                         !.metaData = CountRecord(@, value)]
        sd == <<Step("dataWrite", dataOk)>>
        si == Append(sd, Step("indexWrite", indexOk))
        ss == Append(si, Step("dataSeek", seekOk))
    IN  IF enableBloomFilter /\ wk.bloomFilter.nil THEN Panic(wk, <<>>)
        ELSE IF wb.dataWriter = "nil" THEN Panic(wb, <<>>)
        ELSE IF ~dataOk THEN Result(wb, JoinErrors(sd), sd)
        ELSE IF ~indexOk THEN Result(wr, JoinErrors(ss), ss)
        ELSE Result(wi, <<>>, si)

\* SSTableStreamWriter.WriteNext.
WriteNextResult(w, key, value, dataFail, indexFail, seekFail) ==
    IF ~w.lastKey.nil
    THEN IF OrderCheck(w.lastKey.bytes, key) # "ok"
         THEN Result(w, <<OrderCheck(w.lastKey.bytes, key)>>, <<>>)
         ELSE WriteRecord(w, key, value, dataFail, indexFail, seekFail)
    ELSE IF w.metaData.nil
         THEN Result(w, <<"NotOpened">>, <<>>)
         ELSE WriteRecord([w EXCEPT !.metaData.MinKey = Slice(key)],
                          key, value, dataFail, indexFail, seekFail)

\* ------------------------------------------------------------------- Close
\* The metadata Close serializes (proto.Marshal of a MetaData of numbers and
\* byte strings does not fail).
FinalMetaData(w) ==
    [w.metaData EXCEPT
        !.MaxKey = w.lastKey,
        !.DataBytes = RecSize(w.dataWriter, w.dataFile),
        !.IndexBytes = IndexSize(w.indexWriter, w.indexFile),
        !.TotalBytes = RecSize(w.dataWriter, w.dataFile)
                       + IndexSize(w.indexWriter, w.indexFile)]

\* Close giving up the metadata once a writer failed to close.
CloseSteps_NoMetaAfterFailure(w, indexFail, dataFail, bloomFail, writeFail, closeFail) ==
    <<Step("indexClose", RecCloseOk(w.indexWriter, indexFail)),
      Step("dataClose", RecCloseOk(w.dataWriter, dataFail))>>
    \o (IF enableBloomFilter /\ ~w.bloomFilter.nil
        THEN <<Step("bloomWrite", ~bloomFail)>> ELSE <<>>)
    \o (IF /\ ~w.metaData.nil /\ w.metaDataFile # "nil"
           /\ RecCloseOk(w.indexWriter, indexFail)
           /\ RecCloseOk(w.dataWriter, dataFail)
        THEN <<Step("metaWrite", w.metaDataFile = "open" /\ ~writeFail),
               Step("metaClose", w.metaDataFile = "open" /\ ~closeFail)>>
        ELSE <<>>)

\* Close returning at the first failed step.
CloseSteps_ShortCircuit(w, indexFail, dataFail, bloomFail, writeFail, closeFail) ==
    IF ~RecCloseOk(w.indexWriter, indexFail)
    THEN <<Step("indexClose", FALSE)>>
    ELSE IF ~RecCloseOk(w.dataWriter, dataFail)
    THEN <<Step("indexClose", TRUE), Step("dataClose", FALSE)>>
    ELSE <<Step("indexClose", TRUE), Step("dataClose", TRUE)>>
         \o (IF enableBloomFilter /\ ~w.bloomFilter.nil
             THEN <<Step("bloomWrite", ~bloomFail)>> ELSE <<>>)
         \o (IF ~w.metaData.nil /\ w.metaDataFile # "nil"
             THEN <<Step("metaWrite", w.metaDataFile = "open" /\ ~writeFail),
                    Step("metaClose", w.metaDataFile = "open" /\ ~closeFail)>>
             ELSE <<>>)

\* The steps Close runs once both writers are there: which of them it
\* attempts, given the failures of the I/O calls.
CloseSteps(w, indexFail, dataFail, bloomFail, writeFail, closeFail) ==
    <<Step("indexClose", RecCloseOk(w.indexWriter, indexFail)),
      Step("dataClose", RecCloseOk(w.dataWriter, dataFail))>>
    \o (IF enableBloomFilter /\ ~w.bloomFilter.nil
        THEN <<Step("bloomWrite", ~bloomFail)>> ELSE <<>>)
    \o (IF ~w.metaData.nil /\ w.metaDataFile # "nil"
        THEN <<Step("metaWrite", w.metaDataFile = "open" /\ ~writeFail),
               Step("metaClose", w.metaDataFile = "open" /\ ~closeFail)>>
        ELSE <<>>)

StepOk(steps, name) == \E i \in 1..Len(steps) : steps[i].step = name /\ steps[i].ok

StepTried(steps, name) == \E i \in 1..Len(steps) : steps[i].step = name

\* SSTableStreamWriter.Close.
CloseResult(w, indexFail, dataFail, bloomFail, writeFail, closeFail) ==
    LET steps == CloseSteps(w, indexFail, dataFail, bloomFail, writeFail, closeFail)
        wi == [w EXCEPT !.indexWriter = "closed"]
        wd == [wi EXCEPT !.dataWriter = "closed"]
        wb == IF StepOk(steps, "bloomWrite")
              THEN [wd EXCEPT !.bloomFile = wd.bloomFilter,
                              !.dir.files = @ \cup {"bloom"}]
              ELSE wd
        wm == IF StepTried(steps, "metaWrite")
              THEN [wb EXCEPT !.metaData = FinalMetaData(w),
                              !.metaDataFile = "closed",
                              !.metaFile =
                                  IF StepOk(steps, "metaWrite")
                                  THEN FileWriteAt0(@, Marshal(FinalMetaData(w)))
                                  ELSE @]
              ELSE wb
    IN  IF w.indexWriter = "nil" THEN Panic(w, <<>>)
        ELSE IF w.dataWriter = "nil"
             THEN Panic(wi, <<Step("indexClose", RecCloseOk(w.indexWriter, indexFail))>>)
        ELSE Result(wm, JoinErrors(steps), steps)

\* ---------------------------------------------------------------- actions
\* The writer takes the state a call left, and the call is recorded.
Apply(r, op, key, value) ==
    /\ indexWriter' = r.w.indexWriter
    /\ dataWriter' = r.w.dataWriter
    /\ metaDataFile' = r.w.metaDataFile
    /\ bloomFilter' = r.w.bloomFilter
    /\ metaData' = r.w.metaData
    /\ lastKey' = r.w.lastKey
    /\ indexFile' = r.w.indexFile
    /\ dataFile' = r.w.dataFile
    /\ metaFile' = r.w.metaFile
    /\ bloomFile' = r.w.bloomFile
    /\ dir' = r.w.dir
    /\ lastCall' = [op |-> op, key |-> key, value |-> value,
                    err |-> r.err, steps |-> r.steps]
    /\ numCalls' = numCalls + 1
    /\ UNCHANGED <<opts, newCall>>

\* A call on the writer outside WriteSkipListMap.
Called(r, op, key, value) == Apply(r, op, key, value) /\ UNCHANGED simple

CanCall == wstate # "Panicked" /\ numCalls < MaxCalls

\* The I/O failures a WriteNext call can meet: none, the data append, the
\* index append, or the index append and the rewind after it.  A call that
\* the key checks turn away reaches no I/O.
WriteFailures(w, key) ==
    IF \/ (~w.lastKey.nil /\ OrderCheck(w.lastKey.bytes, key) # "ok")
       \/ (w.lastKey.nil /\ w.metaData.nil)
    THEN {<<FALSE, FALSE, FALSE>>}
    ELSE {<<FALSE, FALSE, FALSE>>, <<TRUE, FALSE, FALSE>>,
          <<FALSE, TRUE, FALSE>>, <<FALSE, TRUE, TRUE>>}

\* The I/O failures a Close call can meet: a step that is not attempted, or
\* that acts on a handle that is not open, has no failure of its own.
CloseFailures(w) ==
    {f \in [{"index", "data", "bloom", "write", "close"} -> BOOLEAN] :
        /\ f["index"] => w.indexWriter = "open"
        /\ f["data"] => w.dataWriter = "open"
        /\ f["bloom"] => (enableBloomFilter /\ ~w.bloomFilter.nil
                          /\ w.indexWriter # "nil" /\ w.dataWriter # "nil")
        /\ f["write"] => (w.metaDataFile = "open" /\ ~w.metaData.nil
                          /\ w.indexWriter # "nil" /\ w.dataWriter # "nil")
        /\ f["close"] => (w.metaDataFile = "open" /\ ~w.metaData.nil
                          /\ w.indexWriter # "nil" /\ w.dataWriter # "nil")}

Open ==
    /\ CanCall
    /\ \E failAt \in OpenFailures :
         LET r == OpenResult(Writer, failAt)
         IN  /\ Called(r, "Open", <<>>, NilSlice)
             /\ wstate' = IF r.err = <<>> THEN "Open"
                          ELSE IF wstate = "Fresh" THEN "OpenFailed" ELSE wstate
             /\ reopened' = (reopened \/ wstate \in {"Open", "Closed"})
             /\ UNCHANGED <<okWrites, seekFailed>>

WriteNext ==
    /\ CanCall
    /\ \E key \in Keys, value \in Values :
       \E f \in WriteFailures(Writer, key) :
         LET r == WriteNextResult(Writer, key, value, f[1], f[2], f[3])
         IN  /\ Called(r, "WriteNext", key, value)
             /\ wstate' = IF r.panic THEN "Panicked" ELSE wstate
             /\ okWrites' = IF r.err = <<>> THEN okWrites + 1 ELSE okWrites
             /\ seekFailed' = (seekFailed \/ (StepTried(r.steps, "dataSeek")
                                              /\ ~StepOk(r.steps, "dataSeek")))
             /\ UNCHANGED reopened

Close ==
    /\ CanCall
    /\ \E f \in CloseFailures(Writer) :
         LET r == CloseResult(Writer, f["index"], f["data"], f["bloom"],
                              f["write"], f["close"])
         IN  /\ Called(r, "Close", <<>>, NilSlice)
             /\ wstate' = IF r.panic THEN "Panicked" ELSE "Closed"
             /\ UNCHANGED <<okWrites, seekFailed, reopened>>

Next == Open \/ WriteNext \/ Close

Spec == Init /\ [][Next]_vars

\* --------------------------------------------------- the constructor calls
\* A constructor is called with a list of options and returns.
NewInit ==
    /\ NewWriter /\ NoCalls
    /\ opts = DefaultOptions /\ simple = NoSimpleCall
    /\ \E fn \in {"NewSSTableStreamWriter", "NewSSTableSimpleWriter"},
          writerOptions \in OptionLists :
          newCall = [fn |-> fn, writerOptions |-> writerOptions,
                     returned |-> FALSE, nil |-> TRUE, err |-> ""]

Return(fn, r) ==
    /\ newCall.fn = fn /\ ~newCall.returned
    /\ newCall' = [newCall EXCEPT !.returned = TRUE, !.nil = r.nil, !.err = r.err]
    /\ opts' = r.opts
    /\ UNCHANGED <<indexWriter, dataWriter, metaDataFile, bloomFilter, metaData,
                   lastKey, indexFile, dataFile, metaFile, bloomFile, dir,
                   simple, lastCall, numCalls, wstate, okWrites, seekFailed,
                   reopened>>

NewStream ==
    Return("NewSSTableStreamWriter", NewSSTableStreamWriter(newCall.writerOptions))

NewSimple ==
    Return("NewSSTableSimpleWriter", NewSSTableSimpleWriter(newCall.writerOptions))

NewNext == NewStream \/ NewSimple

NewSpec == NewInit /\ [][NewNext]_vars

\* -------------------------------------------------------- WriteSkipListMap
\* Bound: the largest map written.
MaxMapLen == 2

\* The maps: their pairs as the iterator hands them out, keys ascending
\* under the comparator and distinct.
SortedMaps ==
    {m \in UNION {[1..n -> [key : Keys, value : Values]] : n \in 0..MaxMapLen} :
        \A i, j \in 1..Len(m) : i < j => Compare(m[i].key, m[j].key) < 0}

\* No I/O failure in Close.
NoCloseFailure == [x \in {"index", "data", "bloom", "write", "close"} |-> FALSE]

\* WriteSkipListMap returning early whether Open failed or not, its
\* deferred Close registered before the check.
AfterOpen_CloseAnyway(err) == IF err = <<>> THEN "loop" ELSE "close"

\* err = writer.streamWriter.Open(); if err != nil { return err }: the
\* deferred Close is registered only after it.
AfterOpen(err) == IF err = <<>> THEN "loop" ELSE "done"

\* The loop going on to the next pair after a failed WriteNext.
AfterWriteNext_Continue(err) == "loop"

\* err = WriteNext(k, v); if err != nil { return ... }: the return runs the
\* deferred Close.
AfterWriteNext(err) == IF err = <<>> THEN "loop" ELSE "close"

\* A writer from NewSSTableSimpleWriter, WriteSkipListMap called on it with
\* one of the maps.
SimpleInit ==
    /\ NewWriter /\ NoCalls
    /\ opts = NewSSTableSimpleWriter(<<WriteBasePath("/table"),
                                       WithKeyComparator("BytesComparator")>>).opts
    /\ newCall = NoNewCall
    /\ \E m \in SortedMaps :
          simple = [pc |-> "open", map |-> m, it |-> m, start |-> Writer,
                    opened |-> FALSE, calls |-> <<>>, bodyErr |-> <<>>,
                    err |-> <<>>,
                    script |-> [open |-> "none", next |-> <<>>,
                                close |-> NoCloseFailure]]

\* err = writer.streamWriter.Open()
SimpleOpen ==
    /\ simple.pc = "open"
    /\ \E failAt \in OpenFailures :
         LET r == OpenResult(Writer, failAt)
         IN  /\ Apply(r, "Open", <<>>, NilSlice)
             /\ wstate' = IF r.err = <<>> THEN "Open" ELSE "OpenFailed"
             /\ simple' = [simple EXCEPT !.pc = AfterOpen(r.err),
                                         !.opened = (r.err = <<>>),
                                         !.calls = Append(@, "Open"),
                                         !.err = r.err,
                                         !.script.open = failAt]
             /\ UNCHANGED <<okWrites, seekFailed, reopened>>

\* k, v, err := it.Next() at the end of the map, or failing.
SimpleIteratorEnds ==
    /\ simple.pc = "loop"
    /\ \E fail \in BOOLEAN :
         /\ fail => simple.it # <<>>
         /\ ~fail => simple.it = <<>>
         /\ simple' = [simple EXCEPT
                          !.pc = "close",
                          !.bodyErr = IF fail THEN <<"iterator">> ELSE <<>>,
                          !.err = IF fail THEN <<"iterator">> ELSE <<>>,
                          !.script.next =
                              IF fail
                              THEN Append(@, [iter |-> TRUE,
                                              f |-> <<FALSE, FALSE, FALSE>>])
                              ELSE @]
    /\ UNCHANGED <<indexWriter, dataWriter, metaDataFile, bloomFilter, metaData,
                   lastKey, indexFile, dataFile, metaFile, bloomFile, dir, opts,
                   newCall, lastCall, numCalls, wstate, okWrites, seekFailed,
                   reopened>>

\* k, v, err := it.Next() handing out a pair, and WriteNext(k, v).
SimpleWriteNext ==
    /\ simple.pc = "loop" /\ simple.it # <<>>
    /\ LET k == Head(simple.it).key
           v == Head(simple.it).value
       IN  \E f \in WriteFailures(Writer, k) :
             LET r == WriteNextResult(Writer, k, v, f[1], f[2], f[3])
             IN  /\ Apply(r, "WriteNext", k, v)
                 /\ wstate' = IF r.panic THEN "Panicked" ELSE wstate
                 /\ okWrites' = IF r.err = <<>> THEN okWrites + 1 ELSE okWrites
                 /\ seekFailed' = (seekFailed \/ (StepTried(r.steps, "dataSeek")
                                                  /\ ~StepOk(r.steps, "dataSeek")))
                 /\ simple' = [simple EXCEPT
                                  !.pc = IF r.panic THEN "panic"
                                         ELSE AfterWriteNext(r.err),
                                  !.it = Tail(@),
                                  !.calls = Append(@, "WriteNext"),
                                  !.bodyErr = r.err,
                                  !.err = r.err,
                                  !.script.next = Append(@, [iter |-> FALSE,
                                                             f |-> f])]
                 /\ UNCHANGED reopened

\* The deferred call: err = errors.Join(err, writer.streamWriter.Close())
SimpleClose ==
    /\ simple.pc = "close"
    /\ \E f \in CloseFailures(Writer) :
         LET r == CloseResult(Writer, f["index"], f["data"], f["bloom"],
                              f["write"], f["close"])
         IN  /\ Apply(r, "Close", <<>>, NilSlice)
             /\ wstate' = IF r.panic THEN "Panicked" ELSE "Closed"
             /\ simple' = [simple EXCEPT
                              !.pc = IF r.panic THEN "panic" ELSE "done",
                              !.calls = Append(@, "Close"),
                              !.err = simple.bodyErr \o r.err,
                              !.script.close = f]
             /\ UNCHANGED <<okWrites, seekFailed, reopened>>

SimpleNext == SimpleOpen \/ SimpleIteratorEnds \/ SimpleWriteNext \/ SimpleClose

\* The call runs on once it has started.
SimpleSpec == SimpleInit /\ [][SimpleNext]_vars /\ WF_vars(SimpleNext)

\* The loop written out by hand, as flushMemstoreBinary has it: WriteNext
\* for each pair in turn under the same I/O failures, up to the first error.
RECURSIVE HandRolledLoop(_, _, _)
HandRolledLoop(w, pairs, next) ==
    IF pairs = <<>> \/ next = <<>> THEN [w |-> w, err |-> <<>>]
    ELSE IF Head(next).iter THEN [w |-> w, err |-> <<"iterator">>]
    ELSE LET f == Head(next).f
             r == WriteNextResult(w, Head(pairs).key, Head(pairs).value,
                                  f[1], f[2], f[3])
         IN  IF r.err # <<>> THEN [w |-> r.w, err |-> r.err]
             ELSE HandRolledLoop(r.w, Tail(pairs), Tail(next))

\* Open; the loop; Close, its error joined to the loop's.
HandRolled(w, pairs, script) ==
    LET o == OpenResult(w, script.open)
        l == HandRolledLoop(o.w, pairs, script.next)
        c == CloseResult(l.w, script.close["index"], script.close["data"],
                         script.close["bloom"], script.close["write"],
                         script.close["close"])
    IN  IF o.err # <<>> THEN [w |-> o.w, err |-> o.err]
        ELSE [w |-> c.w, err |-> l.err \o c.err]

\* ------------------------------------------------------------------ claims
\* Abbreviations for the latest call.
IsCall(op) == lastCall.op = op

Returned == lastCall.err # <<"panic">>

StepNames(steps) == [i \in 1..Len(steps) |-> steps[i].step]

\* C1: whatever Open, WriteNext and Close calls were made, the keys of the
\* index file are strictly increasing under the comparator: no two entries
\* have equal keys and no entry is followed by a smaller key.
C1_IndexKeysStrictlyIncreasing ==
    \A i, j \in 1..Len(indexFile) :
        i < j => Compare(indexFile[i].Key, indexFile[j].Key) < 0

\* Two entries are in the index and a third write with the last key again
\* was turned away.
C1_Witness ==
    /\ Len(indexFile) >= 2
    /\ IsCall("WriteNext") /\ lastCall.err = <<"DuplicateKey">>

\* C2: with a previous key, WriteNext of an equal key fails with the
\* duplicate-key error and of a smaller key with the out-of-order error, and
\* neither appends to the data or index file nor changes last_key, min_key,
\* num_records, null_values or the bloom filter.
C2_RejectedKeyChangesNothing ==
    [][(/\ lastCall'.op = "WriteNext"
        /\ ~lastKey.nil
        /\ Compare(lastKey.bytes, lastCall'.key) >= 0)
       => /\ lastCall'.err = IF Compare(lastKey.bytes, lastCall'.key) = 0
                             THEN <<"DuplicateKey">> ELSE <<"OutOfOrderKey">>
          /\ UNCHANGED <<dataFile, indexFile, lastKey, metaData, bloomFilter>>]_vars

\* A smaller key was turned away on a table that holds an entry.
C2_Witness ==
    /\ Len(indexFile) >= 1
    /\ IsCall("WriteNext") /\ lastCall.err = <<"OutOfOrderKey">>
    /\ Compare(lastCall.key, lastKey.bytes) < 0

\* C3: WriteNext on a writer that is Fresh or Closed returns an error,
\* appends no data or index record and leaves the metadata and the last key
\* as they were.
C3_WriteNextOutsideOpenChangesNothing ==
    [][(/\ lastCall'.op = "WriteNext" /\ lastCall'.err # <<"panic">>
        /\ wstate \in {"Fresh", "Closed"})
       => /\ lastCall'.err # <<>>
          /\ UNCHANGED <<dataFile, indexFile, metaData, lastKey>>]_vars

\* C4 as stated: between the calls num_records is the number of index
\* entries and the number of data records, and the num_records Close writes
\* is the number of WriteNext calls that returned nil.
C4_CountsAlwaysEqual ==
    /\ (~reopened /\ ~metaData.nil)
       => /\ metaData.NumRecords = Len(indexFile)
          /\ metaData.NumRecords = Len(dataFile)
    /\ (~reopened /\ IsCall("Close") /\ StepOk(lastCall.steps, "metaWrite"))
       => metaData.NumRecords = okWrites

\* C4, amended: for a writer opened once, num_records is the number of index
\* entries; the data file holds at least as many records, and exactly as many
\* unless the rewind after a failed index append failed too; the metadata
\* Close writes carries the number of WriteNext calls that returned nil.
C4_CountsAgree ==
    /\ (~reopened /\ ~metaData.nil)
       => /\ metaData.NumRecords = Len(indexFile)
          /\ Len(dataFile) >= Len(indexFile)
          /\ (~seekFailed => Len(dataFile) = Len(indexFile))
    /\ (~reopened /\ IsCall("Close") /\ StepOk(lastCall.steps, "metaWrite"))
       => /\ metaData.NumRecords = okWrites
          /\ SubSeq(metaFile, 1, Len(Marshal(metaData))) = Marshal(metaData)

\* Close wrote the metadata of a table with a record, after a WriteNext call
\* that failed.
C4_Witness ==
    /\ ~reopened /\ IsCall("Close") /\ StepOk(lastCall.steps, "metaWrite")
    /\ okWrites >= 1 /\ numCalls >= okWrites + 3

\* The latest step was a WriteNext whose data append succeeded and whose
\* index append failed.
IndexAppendFailed(call) ==
    /\ call.op = "WriteNext"
    /\ StepOk(call.steps, "dataWrite")
    /\ StepTried(call.steps, "indexWrite") /\ ~StepOk(call.steps, "indexWrite")

\* C5 as stated: when the index append fails after the data append, the data
\* file is back at the size it had before the call, num_records is not
\* incremented, the index is unchanged, and the error joins the index error
\* and any seek error.
C5_RollbackAlwaysRestoresSize ==
    [][IndexAppendFailed(lastCall')
       => /\ StepTried(lastCall'.steps, "dataSeek")
          /\ RecSize(dataWriter', dataFile') = RecSize(dataWriter, dataFile)
          /\ metaData'.NumRecords = metaData.NumRecords
          /\ indexFile' = indexFile
          /\ lastCall'.err = IF StepOk(lastCall'.steps, "dataSeek")
                             THEN <<"indexWrite">>
                             ELSE <<"indexWrite", "dataSeek">>]_vars

\* C5, amended: when the index append fails after the data append, the
\* writer seeks the data writer back to the size it had before the call; if
\* that seek succeeds the data file is as it was before the call, and if it
\* fails the appended record stays in the data file; either way num_records
\* and the index are unchanged and the error joins the index error and any
\* seek error.
C5_RollbackRestoresSizeWhenSeekSucceeds ==
    [][IndexAppendFailed(lastCall')
       => /\ StepTried(lastCall'.steps, "dataSeek")
          /\ StepOk(lastCall'.steps, "dataSeek")
             => /\ dataFile' = dataFile
                /\ RecSize(dataWriter', dataFile') = RecSize(dataWriter, dataFile)
          /\ ~StepOk(lastCall'.steps, "dataSeek")
             => dataFile' = Append(dataFile,
                                   [offset |-> RecSize(dataWriter, dataFile),
                                    payload |-> lastCall'.value.bytes])
          /\ metaData'.NumRecords = metaData.NumRecords
          /\ indexFile' = indexFile
          /\ lastCall'.err = IF StepOk(lastCall'.steps, "dataSeek")
                             THEN <<"indexWrite">>
                             ELSE <<"indexWrite", "dataSeek">>]_vars

\* The index append of the second record failed and the rewind succeeded.
C5_Witness ==
    /\ IndexAppendFailed(lastCall) /\ StepOk(lastCall.steps, "dataSeek")
    /\ Len(dataFile) = 1 /\ Len(indexFile) = 1 /\ okWrites = 1

\* C6: the metadata Close writes has min_key equal to the key of the first
\* entry of the table and max_key equal to the key of its last entry.
C6_MinMaxAreFirstAndLastWritten ==
    (/\ ~reopened /\ IsCall("Close") /\ StepOk(lastCall.steps, "metaWrite")
     /\ indexFile # <<>>)
    => /\ metaData.MinKey.bytes = indexFile[1].Key
       /\ metaData.MaxKey.bytes = indexFile[Len(indexFile)].Key

\* C7: a WriteNext that returns nil increments null_values by one exactly
\* when its value is empty (a zero-length payload).
C7_EmptyValueCountsAsNull ==
    [][(lastCall'.op = "WriteNext" /\ lastCall'.err = <<>>)
       => metaData'.NullValues =
              metaData.NullValues
              + (IF Len(lastCall'.value.bytes) = 0 THEN 1 ELSE 0)]_vars

\* C8: every index entry points at the start of a data record whose payload
\* has the entry's CRC-64/ISO checksum; a WriteNext that returns nil appends,
\* at the end of each file, the data record holding its value at the data
\* file's size before the call and the index entry with its key, that offset
\* and the checksum of its value.
C8_IndexEntriesLocateTheirRecords ==
    /\ [](\A i \in 1..Len(indexFile) :
            \E j \in 1..Len(dataFile) :
                /\ dataFile[j].offset = indexFile[i].ValueOffset
                /\ Crc64(dataFile[j].payload) = indexFile[i].Checksum)
    /\ [][(lastCall'.op = "WriteNext" /\ lastCall'.err = <<>>)
          => /\ dataFile' = Append(dataFile,
                                   [offset |-> RecSize(dataWriter, dataFile),
                                    payload |-> lastCall'.value.bytes])
             /\ indexFile' = Append(indexFile,
                                    [Key |-> lastCall'.key,
                                     ValueOffset |-> RecSize(dataWriter, dataFile),
                                     Checksum |-> Crc64(lastCall'.value.bytes)])]_vars

\* Two entries were written, the second to a non-empty value after a first
\* record with a payload, so that the offsets differ by more than the framing.
C8_Witness ==
    /\ Len(indexFile) = 2 /\ IsCall("WriteNext") /\ lastCall.err = <<>>
    /\ lastCall.value.bytes # <<>>
    /\ indexFile[2].ValueOffset > indexFile[1].ValueOffset + RecordOverhead

\* C9 as stated: metadata reaches the meta file only in a Close call all of
\* whose steps succeeded.
C9_MetaOnlyAfterCleanClose ==
    (IsCall("Close") /\ StepOk(lastCall.steps, "metaWrite")) => lastCall.err = <<>>

\* C9, amended: the writer changes the meta file only in Close, by writing
\* the serialized metadata at its start; Close attempts that write whenever
\* Open had set up the metadata and the meta file, also after its index
\* close, data close or bloom write failed, so that a Close returning an
\* error may have written decodable metadata; a Close that returns nil on
\* such a writer has written it, and before Close nothing is written.
C9_MetaWrittenByCloseOnly ==
    /\ [][metaFile' # metaFile
          => lastCall'.op = "Close" /\ StepOk(lastCall'.steps, "metaWrite")]_vars
    /\ [][(lastCall'.op = "Close" /\ StepOk(lastCall'.steps, "metaWrite"))
          => metaFile' = FileWriteAt0(metaFile, Marshal(metaData'))]_vars
    /\ []((IsCall("Close") /\ Returned /\ ~metaData.nil)
          => /\ StepTried(lastCall.steps, "metaWrite")
             /\ lastCall.err = <<>> => StepOk(lastCall.steps, "metaWrite"))

\* Close returned an error for its index close and still wrote the metadata
\* of a table with a record.
C9_Witness ==
    /\ IsCall("Close") /\ lastCall.err = <<"indexClose">>
    /\ StepOk(lastCall.steps, "metaWrite")
    /\ metaData.NumRecords >= 1
    /\ SubSeq(metaFile, 1, Len(Marshal(metaData))) = Marshal(metaData)

\* C10: on a writer that Open has set up, Close attempts index close, data
\* close, bloom write, metadata write and meta file close in that order
\* whatever fails, and the error it returns names exactly the steps that
\* failed, in that order: nil if and only if none failed.
C10_CloseAttemptsEveryStep ==
    (IsCall("Close") /\ Returned /\ ~metaData.nil /\ ~bloomFilter.nil)
    => /\ StepNames(lastCall.steps)
            = <<"indexClose", "dataClose", "bloomWrite", "metaWrite", "metaClose">>
       /\ lastCall.err = StepNames(SelectSeq(lastCall.steps, LAMBDA s : ~s.ok))
       /\ (lastCall.err = <<>>) <=> (\A i \in 1..Len(lastCall.steps) :
                                        lastCall.steps[i].ok)
       /\ indexWriter = "closed" /\ dataWriter = "closed"
       /\ metaDataFile = "closed"
       /\ StepOk(lastCall.steps, "bloomWrite") => bloomFile = bloomFilter

\* Close went on after its first step failed and returned both failures.
C10_Witness ==
    /\ IsCall("Close") /\ lastCall.err = <<"indexClose", "metaClose">>
    /\ StepOk(lastCall.steps, "dataClose") /\ StepOk(lastCall.steps, "bloomWrite")
    /\ StepOk(lastCall.steps, "metaWrite")

C18_FailedAppendChangesNothing ==
    [][(/\ lastCall'.op = "WriteNext"
        /\ wstate = "Open"
        /\ \/ StepTried(lastCall'.steps, "dataWrite")
              /\ ~StepOk(lastCall'.steps, "dataWrite")
           \/ StepTried(lastCall'.steps, "indexWrite")
              /\ ~StepOk(lastCall'.steps, "indexWrite"))
       => /\ lastKey' = lastKey
          /\ metaData'.MinKey = metaData.MinKey
          /\ bloomFilter' = bloomFilter]_vars

\* C16: a table opened once and closed after no WriteNext call returned
\* success is closed without error, and the metadata Close writes has no
\* num_records, no null_values, no min_key and no max_key (all zero or
\* absent).
C16_EmptyTableHasNoKeys ==
    (/\ IsCall("Close") /\ ~reopened /\ okWrites = 0
     /\ StepTried(lastCall.steps, "metaWrite")
     /\ \A i \in 1..Len(lastCall.steps) : lastCall.steps[i].ok)
    => /\ lastCall.err = <<>>
       /\ metaData.NumRecords = 0 /\ metaData.NullValues = 0
       /\ \A i \in 1..Len(Marshal(metaData)) :
              Marshal(metaData)[i].field \notin {"num_records", "null_values",
                                                "min_key", "max_key"}

\* C20: when the Open of a new writer returns an error, none of the handles
\* it opened on the way (index writer, data writer, meta file) is still open.
C20_FailedOpenLeavesNoHandleOpen ==
    (IsCall("Open") /\ numCalls = 1 /\ lastCall.err # <<>>)
    => /\ indexWriter # "open"
       /\ dataWriter # "open"
       /\ metaDataFile # "open"

\* C13: after a successful Open the meta file is empty, whatever the
\* directory held before, and after a successful Close the meta file is
\* exactly the serialized metadata of this writer.
C13_MetaFileTruncated ==
    /\ (IsCall("Open") /\ lastCall.err = <<>>) => metaFile = <<>>
    /\ (IsCall("Close") /\ lastCall.err = <<>>
        /\ StepOk(lastCall.steps, "metaWrite"))
       => metaFile = Marshal(metaData)

\* C14 as stated: Open on a base path whose directory is absent, meeting no
\* failure of its own (the index writer was constructed; nothing later can
\* be reached without the directory), succeeds, and afterwards the directory
\* exists and holds the data, index and meta files.
C14_OpenCreatesDirectory ==
    [][(/\ lastCall'.op = "Open"
        /\ ~dir.exists
        /\ StepOk(lastCall'.steps, "indexNew"))
       => /\ lastCall'.err = <<>>
          /\ dir'.exists
          /\ {"data", "index", "meta"} \subseteq dir'.files]_vars

\* C14, amended: Open never creates the directory.  On an absent directory
\* it returns an error, creates no file and leaves the writer unopened; on
\* an existing one an Open that returns nil has created the data, index and
\* meta files in it.
C14_OpenNeedsDirectory ==
    [][lastCall'.op = "Open"
       => /\ dir'.exists = dir.exists
          /\ ~dir.exists => /\ lastCall'.err # <<>>
                             /\ dir'.files = {}
                             /\ indexWriter' # "open" /\ dataWriter' # "open"
                             /\ metaDataFile' # "open"
          /\ lastCall'.err = <<>>
             => /\ dir.exists
                /\ {"data", "index", "meta"} \subseteq dir'.files]_vars

\* Open was called on an absent directory, constructed the index writer and
\* failed to open it.
C14_Witness ==
    /\ IsCall("Open") /\ ~dir.exists
    /\ StepOk(lastCall.steps, "indexNew")
    /\ lastCall.err = <<"indexOpen">>

\* The options a constructor call resolves to: the defaults with the
\* caller's options applied in order.
Resolved == ApplyOptions(DefaultOptions, newCall.writerOptions)

\* The caller's last WriteBufferSizeBytes option, or the default given.
BufferSizeAsked(default) ==
    LET at == {i \in 1..Len(newCall.writerOptions) :
                  newCall.writerOptions[i].opt = "WriteBufferSizeBytes"}
    IN  IF at = {} THEN default
        ELSE newCall.writerOptions[CHOOSE i \in at : \A j \in at : j <= i].num

\* C15: NewSSTableStreamWriter returns nil and an error exactly when the
\* resolved options have an empty base path, no comparator, or a bloom
\* sizing (expected elements, false-positive probability) of zero or below;
\* otherwise it returns a fresh writer carrying the resolved options.
C15_InvalidOptionsRefused ==
    (newCall.fn = "NewSSTableStreamWriter" /\ newCall.returned)
    => /\ (newCall.nil /\ newCall.err # "")
          <=> \/ Resolved.basePath = ""
              \/ Resolved.keyComparator = "nil"
              \/ Resolved.bloomExpectedNumberOfElements <= 0
              \/ Resolved.bloomFpProbability <= 0
       /\ ~newCall.nil => (opts = Resolved /\ wstate = "Fresh")

\* C17 as stated: a stream writer's buffer is 4 MiB unless the caller's
\* last WriteBufferSizeBytes option says otherwise, and a simple writer's
\* is 4 KiB unless the caller's last WriteBufferSizeBytes option says
\* otherwise.
C17_BufferSizeDefaults ==
    (newCall.returned /\ ~newCall.nil)
    => /\ newCall.fn = "NewSSTableStreamWriter"
          => opts.writeBufferSizeBytes = BufferSizeAsked(DefaultWriteBufferSizeBytes)
       /\ newCall.fn = "NewSSTableSimpleWriter"
          => opts.writeBufferSizeBytes = BufferSizeAsked(SimpleWriteBufferSizeBytes)

\* C17, amended: a stream writer's buffer is 4 MiB unless the caller's last
\* WriteBufferSizeBytes option says otherwise; a simple writer's is 4 KiB
\* whatever the caller's options say.
C17_SimpleWriterOverrides ==
    (newCall.returned /\ ~newCall.nil)
    => /\ newCall.fn = "NewSSTableStreamWriter"
          => opts.writeBufferSizeBytes = BufferSizeAsked(DefaultWriteBufferSizeBytes)
       /\ newCall.fn = "NewSSTableSimpleWriter"
          => opts.writeBufferSizeBytes = SimpleWriteBufferSizeBytes

\* A simple writer was built from options that ask for a buffer of 64 KiB.
C17_Witness ==
    /\ newCall.fn = "NewSSTableSimpleWriter"
    /\ newCall.returned /\ ~newCall.nil
    /\ BufferSizeAsked(SimpleWriteBufferSizeBytes) = 65536
    /\ opts.writeBufferSizeBytes = SimpleWriteBufferSizeBytes

\* C12: when WriteSkipListMap has returned, the writer's data, index, bloom
\* and meta contents (and the rest of the writer) are those the hand-rolled
\* sequence Open, WriteNext per pair up to the first error, Close leaves
\* under the same I/O failures, and it returns nil exactly when that
\* sequence does, with the same errors joined.
C12_SimpleWriterIsTheHandRolledLoop ==
    simple.pc = "done"
    => LET hand == HandRolled(simple.start, simple.map, simple.script)
       IN  /\ Writer = hand.w
           /\ simple.err = hand.err

\* A map of two pairs was written, the second WriteNext failed and Close
\* ran after it.
C12_Witness ==
    /\ simple.pc = "done"
    /\ Len(simple.map) = 2 /\ Len(indexFile) = 1
    /\ simple.calls = <<"Open", "WriteNext", "WriteNext", "Close">>
    /\ simple.bodyErr # <<>>

\* The steps a WriteSkipListMap call has left at most: one per pair the
\* iterator still holds, the end of the iteration, Close, and Open.
StepsLeft ==
    CASE simple.pc = "open" -> Len(simple.map) + 3
      [] simple.pc = "loop" -> Len(simple.it) + 2
      [] simple.pc = "close" -> 1
      [] OTHER -> 0

\* C19: every WriteSkipListMap call returns: until it has, it can take a
\* step, and each step leaves fewer steps to take, so a map of n pairs is
\* done within n + 3 steps.  When its Open succeeded, the calls it made are
\* Open, the WriteNext calls, then Close exactly once and last, and Close's
\* error is joined to the error of the loop in what it returns; when its
\* Open failed, Open is the only call it made.
C19_ReturnsAndClosesOnce ==
    /\ [](simple.pc # "done" => ENABLED SimpleNext)
    /\ [][StepsLeft' < StepsLeft]_vars
    /\ [](simple.pc = "done"
          => IF simple.opened
             THEN /\ Len(simple.calls) >= 2
                  /\ \A i \in 1..Len(simple.calls) :
                        simple.calls[i] = IF i = 1 THEN "Open"
                                          ELSE IF i = Len(simple.calls) THEN "Close"
                                          ELSE "WriteNext"
                  /\ lastCall.op = "Close"
                  /\ simple.err = simple.bodyErr \o lastCall.err
             ELSE /\ simple.calls = <<"Open">>
                  /\ simple.err = lastCall.err /\ simple.err # <<>>)

\* A call returned after a WriteNext failed and the Close after it failed
\* too.
C19_Witness ==
    /\ simple.pc = "done" /\ simple.opened
    /\ simple.calls = <<"Open", "WriteNext", "Close">>
    /\ simple.bodyErr # <<>> /\ lastCall.err # <<>>
====
